---- MODULE Spec2Model ----
(***************************************************************************)
(* Download orchestration and progress streaming of YT-Downloader:         *)
(*   DownloadQueue            (server/src/services/DownloadQueue.ts)       *)
(*   downloadVideo controller (server/src/controllers/videoController.ts)  *)
(*   getDownloadProgress SSE  (server/src/controllers/videoController.ts)  *)
(*   ytdlpService.downloadVideo (server/src/services/ytdlpService.ts)      *)
(* Node runs every handler to completion on one event loop, so each        *)
(* handler (with the promise continuations it triggers) is one action.     *)
(***************************************************************************)
EXTENDS Integers, Sequences, FiniteSets, TLC

\* ---------------------------------------------------------------- bounds
\* configurations the DownloadQueue constructor may read from the environment
\* (MAX_CONCURRENT_DOWNLOADS, MAX_QUEUE_SIZE, QUEUE_TIMEOUT_MS)
Concurrents == {1, 2}
QueueSizes == {1, 2}
Timeouts == {0}
\* number of download requests issued in a run
MaxJobs == 3
\* number of download requests issued in a run with a progress stream
StreamJobs == 2
\* number of download requests issued in a run that watches the temp directory
FileJobs == 2
\* longest download id, in tokens, a file request carries
MaxIdTokens == 3
\* longest path, in tokens, handed to validatePath
MaxPathTokens == 5
\* longest video title, in tokens, a download request meets
MaxTitleTokens == 3
\* number of URLs whose metadata is asked for in a run with concurrent lookups
InfoUrls == 2
\* number of URLs asked for beyond those the metadata cache can hold
ExtraUrls == 1
\* number of URLs that are asked for again after their first lookup
MaxReasked == 1
\* number of times the clock of a metadata run advances
MaxClockTicks == 2
\* number of download requests issued in a run with direct streaming
DirectJobs == 2
\* number of direct streaming requests served at the same time
MaxDirect == 2
\* number of download requests issued in a run that watches the subprocess output
ParseJobs == 2
\* number of events one stream pushes in a run
MaxEvents == 2
\* the clock runs until a queued job can have timed out
MaxTime == 1 + CHOOSE t \in Timeouts : \A u \in Timeouts : u <= t
\* percentages the subprocess prints while downloading
Pcts == {30, 70}

Ids == 1..MaxJobs
\* an id no submission ever issued
UnknownId == 0
\* progress-stream connections; a connection only reads the Progress Store,
\* so connections do not influence each other
StreamIds == {1}

\* ------------------------------------------------------- error messages
QueueFullMsg == "Download queue is full. Please try again later."
TimedOutMsg == "Download request timed out in queue"
CancelledMsg == "Download cancelled by user"
ExitCodeMsg == "Download failed with code"
SpawnMsg == "Failed to spawn yt-dlp"
\* onComplete() called without an error
NoError == "none"

VARIABLES
    maxConcurrent,      \* DownloadQueue.maxConcurrent
    maxQueueSize,       \* DownloadQueue.maxQueueSize
    queueTimeout,       \* DownloadQueue.queueTimeout
    queue,              \* DownloadQueue.queue: sequence of QueuedDownload
    activeDownloads,    \* DownloadQueue.activeDownloads: id -> QueuedDownload
    downloadProgress,   \* controller's progress map: id -> entry
    purgeTimers,        \* id -> number of pending setTimeout(delete) timers
    proc,               \* id -> state of the yt-dlp subprocess of the job
    now,                \* Date.now()
    responses,          \* addDownload results, one per submission, in order
    completeCount,      \* id -> number of onComplete calls made for the job
    onCompleteCalls,    \* <<id, error>> of the onComplete calls of the last handler
    streams,            \* SSE connections of getDownloadProgress
    tempDir,            \* the files in the temp directory
    call,               \* the last call of a request handler or helper checked on its own
    cache,              \* YtDlpService.cache: entries <<url, timestamp>> in Map order
    pendingRequests,    \* YtDlpService.pendingRequests: url -> promise
    lookupProc,         \* promise -> the yt-dlp --dump-json subprocess its executor spawned
    recency,            \* the cached urls, least recently read or written first
    streamProcs         \* number of running yt-dlp subprocesses spawned by streamDownload

config == <<maxConcurrent, maxQueueSize, queueTimeout>>
\* the state of YtDlpService.getVideoInfo
info == <<cache, pendingRequests, lookupProc, recency>>

vars == <<config, queue, activeDownloads, downloadProgress, purgeTimers, proc, now,
          responses, completeCount, onCompleteCalls, streams, tempDir, call, info,
          streamProcs>>

\* ------------------------------------------------------------ Map helpers
MapSet(m, k, v) == [x \in (DOMAIN m) \cup {k} |-> IF x = k THEN v ELSE m[x]]
\* a delete that removes nothing
MapDeleteKeeps(m, k) == m
MapDelete(m, k) == [x \in (DOMAIN m) \ {k} |-> m[x]]
EmptyMap == [x \in {} |-> 0]
Max(a, b) == IF a >= b THEN a ELSE b

\* ------------------------------------------------------- Progress Store
QueuedEntry ==
    [progress |-> 0, eta |-> "Queued...", speed |-> "0", done |-> FALSE,
     maxProgress |-> 0, status |-> "Queued"]
\* an error branch that leaves the job shown as downloading
FailedEntryStillDownloading ==
    [progress |-> 0, eta |-> "Unknown", speed |-> "Unknown", done |-> FALSE,
     maxProgress |-> 0, status |-> "Downloading"]

FailedEntry ==
    [progress |-> 0, eta |-> "Failed", speed |-> "Error", done |-> FALSE,
     maxProgress |-> 0, status |-> "Error"]
CompletedEntry ==
    [progress |-> 100, eta |-> "00:00", speed |-> "Complete", done |-> TRUE,
     maxProgress |-> 100, status |-> "Completed"]
\* the event the stream makes up when the id is not in the store
SynthEvent ==
    [progress |-> 100, eta |-> "00:00", speed |-> "Complete", done |-> TRUE,
     maxProgress |-> -1, status |-> "undefined"]

\* progress callback of downloadVideo: running maximum, status defaults
onProgress(dp, id, progress, eta, speed) ==
    LET currentMax == IF id \in DOMAIN dp THEN dp[id].maxProgress ELSE 0
        finalProgress == Max(progress, currentMax)
    IN MapSet(dp, id, [progress |-> finalProgress, eta |-> eta, speed |-> speed,
                       done |-> FALSE, maxProgress |-> finalProgress,
                       status |-> "Downloading"])

\* a completion callback that does not look at its error argument
onCompleteEntryIgnoresError(error) == CompletedEntry

\* completion callback of downloadVideo: the entry it writes
onCompleteEntry(error) == IF error # NoError THEN FailedEntry ELSE CompletedEntry

\* ------------------------------------------------------- temp directory
\* a file name is <<the id it starts with, the rest of the name>>
\* join(tempDir, `${downloadId}-${filename}`): the path handed to yt-dlp -o
tempFile(id) == <<id, "filename">>
\* where a subprocess that exits with code 0 has left its output: at the -o
\* path, or under another name that begins with the id
OutputNames == {"filename", "renamed"}
\* fs.unlink(path): an absent path is an error the callers ignore or log
unlink(dir, path) == dir \ {path}
\* f.startsWith(downloadId)
startsWith(f, downloadId) == f[1] = downloadId

\* ------------------------------------------------------- DownloadQueue
\* zero-based positions
updateQueuePositionsZeroBased(q) ==
    [i \in 1..Len(q) |-> [q[i] EXCEPT !.queuePosition = i - 1]]

updateQueuePositions(q) ==
    [i \in 1..Len(q) |-> [q[i] EXCEPT !.queuePosition = i]]

\* off by one: compares with <= and so starts one download too many
canStartOffByOne(a, q) == Cardinality(DOMAIN a) <= maxConcurrent /\ Len(q) > 0

\* keeps the last slot free
canStartLeavesSlot(a, q) == Cardinality(DOMAIN a) < maxConcurrent - 1 /\ Len(q) > 0

canStart(a, q) == Cardinality(DOMAIN a) < maxConcurrent /\ Len(q) > 0

\* pops the most recent download instead of the oldest
shiftFromTail(q) == [download |-> q[Len(q)], rest |-> SubSeq(q, 1, Len(q) - 1)]

shift(q) == [download |-> Head(q), rest |-> Tail(q)]

RECURSIVE processQueueLoop(_, _, _)
processQueueLoop(q, a, t) ==
    IF canStart(a, q)
    THEN LET s == shift(q)
             download == [s.download EXCEPT !.status = "downloading", !.startedAt = t]
         IN processQueueLoop(s.rest, MapSet(a, download.downloadId, download), t)
    ELSE [queue |-> q, active |-> a]

processQueue(q, a, t) ==
    LET r == processQueueLoop(q, a, t)
    IN [queue |-> updateQueuePositions(r.queue), active |-> r.active]

\* accepts one download more than maxQueueSize
queueIsFullOffByOne(q) == Len(q) > maxQueueSize

queueIsFull(q) == Len(q) >= maxQueueSize

\* the index of the last element, counted from 0
positionFromZero(pushed) == Len(pushed) - 1

\* const position = this.queue.length, read right after the push
position(pushed) == Len(pushed)

addDownload(q, a, id, t) ==
    IF queueIsFull(q)
    THEN [ret |-> [queued |-> FALSE, position |-> 0, error |-> QueueFullMsg],
          queue |-> q, active |-> a]
    ELSE LET queuedDownload == [downloadId |-> id, addedAt |-> t, startedAt |-> -1,
                                status |-> "queued", queuePosition |-> 0]
             pushed == Append(q, queuedDownload)
             r == processQueue(pushed, a, t)
         IN [ret |-> [queued |-> TRUE, position |-> position(pushed), error |-> ""],
             queue |-> r.queue, active |-> r.active]

\* evicts a download that has waited exactly queueTimeout
timedOutInclusive(download, t) == t - download.addedAt >= queueTimeout

\* a sweep that finds no download timed out
timedOutNever(download, t) == FALSE

timedOut(download, t) == t - download.addedAt > queueTimeout

\* reports the index the way findIndex counts it, from 0
getQueueStatusZeroBased(q, a, downloadId) ==
    IF downloadId \in DOMAIN a
    THEN [status |-> "active", activeDownloads |-> Cardinality(DOMAIN a),
          totalQueued |-> Len(q)]
    ELSE IF \E i \in 1..Len(q) : q[i].downloadId = downloadId
    THEN LET queueIndex == (CHOOSE i \in 1..Len(q) :
                              /\ q[i].downloadId = downloadId
                              /\ \A j \in 1..(i - 1) : q[j].downloadId # downloadId) - 1
         IN [status |-> "queued", position |-> queueIndex,
             activeDownloads |-> Cardinality(DOMAIN a), totalQueued |-> Len(q),
             estimatedWaitTime |-> queueIndex * 120000]
    ELSE [status |-> "not_found", activeDownloads |-> Cardinality(DOMAIN a),
          totalQueued |-> Len(q)]

\* DownloadQueue.getQueueStatus(downloadId); estimatedWaitTime in ms
getQueueStatus(q, a, downloadId) ==
    IF downloadId \in DOMAIN a
    THEN [status |-> "active", activeDownloads |-> Cardinality(DOMAIN a),
          totalQueued |-> Len(q)]
    ELSE IF \E i \in 1..Len(q) : q[i].downloadId = downloadId
    THEN LET queueIndex == (CHOOSE i \in 1..Len(q) :
                              /\ q[i].downloadId = downloadId
                              /\ \A j \in 1..(i - 1) : q[j].downloadId # downloadId) - 1
             pos == queueIndex + 1
         IN [status |-> "queued", position |-> pos,
             activeDownloads |-> Cardinality(DOMAIN a), totalQueued |-> Len(q),
             estimatedWaitTime |-> pos * 120000]
    ELSE [status |-> "not_found", activeDownloads |-> Cardinality(DOMAIN a),
          totalQueued |-> Len(q)]

\* DownloadQueue.isDownloadComplete(downloadId)
isDownloadComplete(a, downloadId) ==
    IF downloadId \notin DOMAIN a
    THEN TRUE
    ELSE a[downloadId].status = "completed"

\* DownloadQueue.getStats()
getStats(q, a) ==
    [activeDownloads |-> Cardinality(DOMAIN a), queuedDownloads |-> Len(q),
     maxConcurrent |-> maxConcurrent, maxQueueSize |-> maxQueueSize]

findIndex(q, id) ==
    IF \E i \in 1..Len(q) : q[i].downloadId = id
    THEN CHOOSE i \in 1..Len(q) :
            /\ q[i].downloadId = id
            /\ \A j \in 1..(i - 1) : q[j].downloadId # id
    ELSE 0

\* removes the head of the queue, whatever the index
spliceFirst(q, i) == Tail(q)

splice(q, i) == [j \in 1..(Len(q) - 1) |-> IF j < i THEN q[j] ELSE q[j + 1]]

\* ids of the downloads that processQueue handed to startDownload
Started(a0, a1) == (DOMAIN a1) \ (DOMAIN a0)
spawnAll(p, started) == [id \in Ids |-> IF id \in started THEN "spawned" ELSE p[id]]

\* ------------------------------------------------------------------ Init
IdleStream == [downloadId |-> UnknownId, opened |-> FALSE, interval |-> FALSE,
               endTimer |-> FALSE, ended |-> FALSE, connected |-> FALSE,
               sent |-> <<>>]

NoCall == [op |-> "none"]

Init ==
    /\ call = NoCall
    /\ cache = <<>>
    /\ pendingRequests = EmptyMap
    /\ lookupProc = EmptyMap
    /\ recency = <<>>
    /\ streamProcs = 0
    /\ tempDir = {}
    /\ maxConcurrent \in Concurrents
    /\ maxQueueSize \in QueueSizes
    /\ queueTimeout \in Timeouts
    /\ queue = <<>>
    /\ activeDownloads = EmptyMap
    /\ downloadProgress = EmptyMap
    /\ purgeTimers = [id \in Ids |-> 0]
    /\ proc = [id \in Ids |-> "none"]
    /\ now = 0
    /\ responses = <<>>
    /\ completeCount = [id \in Ids |-> 0]
    /\ onCompleteCalls = <<>>
    /\ streams = [s \in StreamIds |-> IdleStream]

\* the message of downloadVideo's 200 response
message(queueResult) ==
    IF queueResult.position = 1
    THEN <<"Download starting">>
    ELSE <<"Queued at position", queueResult.position>>

\* --------------------------------------------------------------- actions
\* POST /download: downloadVideo, from the store initialisation to the response
Submit ==
    /\ Len(responses) < MaxJobs
    /\ LET id == Len(responses) + 1
           dp0 == MapSet(downloadProgress, id, QueuedEntry)
           r == addDownload(queue, activeDownloads, id, now)
       IN /\ queue' = r.queue
          /\ activeDownloads' = r.active
          /\ downloadProgress' = IF r.ret.queued THEN dp0 ELSE MapDelete(dp0, id)
          /\ proc' = spawnAll(proc, Started(activeDownloads, r.active))
          /\ responses' = Append(responses, r.ret)
    /\ onCompleteCalls' = <<>>
    /\ UNCHANGED <<config, info, streamProcs, call, tempDir, purgeTimers, now, completeCount, streams>>

\* the wall clock advances
Tick ==
    /\ now < MaxTime
    /\ now' = now + 1
    /\ onCompleteCalls' = <<>>
    /\ UNCHANGED <<config, info, streamProcs, call, tempDir, queue, activeDownloads, downloadProgress, purgeTimers, proc,
                   responses, completeCount, streams>>

\* stdout/stderr 'data' with a "[download] NN%" line: the parser calls onProgress
ProcOutput(id, pct) ==
    /\ proc[id] \in {"spawned", "running"}
    /\ proc' = [proc EXCEPT ![id] = "running"]
    /\ downloadProgress' = onProgress(downloadProgress, id, pct, "Unknown", "Unknown")
    /\ tempDir' = tempDir \cup {tempFile(id)}
    /\ onCompleteCalls' = <<>>
    /\ UNCHANGED <<config, info, streamProcs, call, queue, activeDownloads, purgeTimers, now, responses,
                   completeCount, streams>>

\* 'close' with code 0: the 3 s flush timer is armed; the output is on disk as name
ProcCloseOk(id, name) ==
    /\ proc[id] \in {"spawned", "running"}
    /\ proc' = [proc EXCEPT ![id] = "flushing"]
    /\ tempDir' = unlink(tempDir, tempFile(id)) \cup {<<id, name>>}
    /\ onCompleteCalls' = <<>>
    /\ UNCHANGED <<config, info, streamProcs, call, queue, activeDownloads, downloadProgress, purgeTimers, now,
                   responses, completeCount, streams>>

\* leaks the slot: advances the queue without activeDownloads.delete
startDownloadFinallyLeak(q, a, id, t) == processQueue(q, a, t)

\* puts the finished download back at the end of the queue
startDownloadFinallyRequeues(q, a, id, t) ==
    processQueue(Append(q, a[id]), MapDelete(a, id), t)

\* finally block of startDownload: free the slot, then advance the queue
startDownloadFinally(q, a, id, t) == processQueue(q, MapDelete(a, id), t)

\* startDownload after its await: onComplete, then the finally block
\* (activeDownloads.delete and processQueue); dp is the store at that moment
Settle(id, error, dp) ==
    /\ LET r == startDownloadFinally(queue, activeDownloads, id, now)
       IN /\ queue' = r.queue
          /\ activeDownloads' = r.active
          /\ proc' = [spawnAll(proc, Started(MapDelete(activeDownloads, id), r.active))
                        EXCEPT ![id] = "exited"]
    /\ downloadProgress' = MapSet(dp, id, onCompleteEntry(error))
    /\ purgeTimers' = [purgeTimers EXCEPT ![id] = @ + 1]
    /\ completeCount' = [completeCount EXCEPT ![id] = @ + 1]
    /\ tempDir' = IF error # NoError THEN unlink(tempDir, tempFile(id)) ELSE tempDir
    /\ onCompleteCalls' = << <<id, error>> >>
    /\ UNCHANGED <<config, info, streamProcs, call, now, responses, streams>>

\* the flush timer fires: onProgress(100), resolve, startDownload's success path
ProcFlushed(id) ==
    /\ proc[id] = "flushing"
    /\ Settle(id, NoError, onProgress(downloadProgress, id, 100, "00:00", "Complete"))

\* 'close' with a non-zero code: reject, startDownload's catch path
ProcCloseFail(id) ==
    /\ proc[id] \in {"spawned", "running"}
    /\ Settle(id, ExitCodeMsg, downloadProgress)

\* 'error' before any output: the executable could not be started
ProcSpawnError(id) ==
    /\ proc[id] = "spawned"
    /\ Settle(id, SpawnMsg, downloadProgress)

\* filter callback of cleanupTimedOutDownloads, over the whole queue
RECURSIVE sweepFilter(_, _, _)
sweepFilter(q, t, st) ==
    IF q = <<>> THEN st
    ELSE LET download == Head(q)
         IN IF timedOut(download, t)
            THEN sweepFilter(Tail(q), t,
                    [st EXCEPT !.removed = Append(@, download.downloadId)])
            ELSE sweepFilter(Tail(q), t,
                    [st EXCEPT !.kept = Append(@, download)])

\* a sweep whose filter fails the timed-out downloads but keeps them queued
cleanupTimedOutDownloadsKeeps(q, t) ==
    [queue |-> q, removed |-> sweepFilter(q, t, [kept |-> <<>>, removed |-> <<>>]).removed]

cleanupTimedOutDownloads(q, t) ==
    LET st == sweepFilter(q, t, [kept |-> <<>>, removed |-> <<>>])
        removed == Len(q) - Len(st.kept)
    IN [queue |-> IF removed > 0 THEN updateQueuePositions(st.kept) ELSE st.kept,
        removed |-> st.removed]

InSeq(x, sq) == \E i \in 1..Len(sq) : sq[i] = x

\* the 60 s interval of the DownloadQueue constructor fires
Sweep ==
    /\ UNCHANGED <<config, info, streamProcs, call, activeDownloads, proc, now, responses, streams>>
    /\ LET r == cleanupTimedOutDownloads(queue, now)
       IN /\ queue' = r.queue
          /\ tempDir' = tempDir \ {tempFile(r.removed[i]) : i \in 1..Len(r.removed)}
          /\ downloadProgress' =
                [id \in (DOMAIN downloadProgress) \cup {r.removed[i] : i \in 1..Len(r.removed)} |->
                    IF InSeq(id, r.removed) THEN onCompleteEntry(TimedOutMsg)
                    ELSE downloadProgress[id]]
          /\ purgeTimers' = [id \in Ids |->
                IF InSeq(id, r.removed) THEN purgeTimers[id] + 1 ELSE purgeTimers[id]]
          /\ completeCount' = [id \in Ids |->
                IF InSeq(id, r.removed) THEN completeCount[id] + 1 ELSE completeCount[id]]
          /\ onCompleteCalls' = [i \in 1..Len(r.removed) |-> <<r.removed[i], TimedOutMsg>>]

\* DownloadQueue.cancelDownload(id)
cancelDownload(q, id) ==
    LET queueIndex == findIndex(q, id)
    IN IF queueIndex # 0
       THEN [ret |-> TRUE, queue |-> updateQueuePositions(splice(q, queueIndex))]
       ELSE [ret |-> FALSE, queue |-> q]

Cancel(id) ==
    /\ UNCHANGED <<config, info, streamProcs, call, activeDownloads, proc, now, responses, streams>>
    /\ LET r == cancelDownload(queue, id)
       IN /\ queue' = r.queue
          /\ tempDir' = IF r.ret THEN unlink(tempDir, tempFile(id)) ELSE tempDir
          /\ IF r.ret
             THEN /\ downloadProgress' = MapSet(downloadProgress, id, onCompleteEntry(CancelledMsg))
                  /\ purgeTimers' = [purgeTimers EXCEPT ![id] = @ + 1]
                  /\ completeCount' = [completeCount EXCEPT ![id] = @ + 1]
                  /\ onCompleteCalls' = << <<id, CancelledMsg>> >>
             ELSE /\ onCompleteCalls' = <<>>
                  /\ UNCHANGED <<downloadProgress, purgeTimers, completeCount>>

\* only the success branch's timer deletes the entry
purgeEntryOnlyDone(dp, id) ==
    IF id \in DOMAIN dp /\ dp[id].done THEN MapDelete(dp, id) ELSE dp

\* downloadProgress.delete(downloadId) in the timer callbacks
purgeEntry(dp, id) == MapDelete(dp, id)

\* a setTimeout of the completion callback fires: the one armed by the error
\* branch (10 s) deletes the entry, the one armed by the success branch
\* (300 s) deletes the entry and unlinks tempFile; a job has one of them,
\* told apart here by the entry the same branch wrote
PurgeTimer(id) ==
    /\ purgeTimers[id] > 0
    /\ purgeTimers' = [purgeTimers EXCEPT ![id] = @ - 1]
    /\ downloadProgress' = purgeEntry(downloadProgress, id)
    /\ tempDir' = IF id \in DOMAIN downloadProgress /\ downloadProgress[id].done
                  THEN unlink(tempDir, tempFile(id))
                  ELSE tempDir
    /\ onCompleteCalls' = <<>>
    /\ UNCHANGED <<config, info, streamProcs, call, queue, activeDownloads, proc, now, responses, completeCount,
                   streams>>

\* ------------------------------------------------- getDownloadProgress
\* GET /progress/:downloadId: headers written, interval armed, 'close' handler set
StreamOpen(s, id) ==
    /\ ~streams[s].opened
    /\ streams' = [streams EXCEPT ![s] =
            [downloadId |-> id, opened |-> TRUE, interval |-> TRUE,
             endTimer |-> FALSE, ended |-> FALSE, connected |-> TRUE, sent |-> <<>>]]
    /\ onCompleteCalls' = <<>>
    /\ UNCHANGED <<config, info, streamProcs, call, tempDir, queue, activeDownloads, downloadProgress, purgeTimers, proc, now,
                   responses, completeCount>>

\* keeps polling after the made-up event for an absent id
streamTickKeepsPolling(st, dp) ==
    IF st.downloadId \in DOMAIN dp
    THEN LET progress == dp[st.downloadId]
         IN IF progress.done
            THEN [st EXCEPT !.sent = Append(@, progress), !.interval = FALSE,
                            !.endTimer = TRUE]
            ELSE [st EXCEPT !.sent = Append(@, progress)]
    ELSE [st EXCEPT !.sent = Append(@, SynthEvent)]

\* one run of the 300 ms interval callback
streamTick(st, dp) ==
    IF st.downloadId \in DOMAIN dp
    THEN LET progress == dp[st.downloadId]
         IN IF progress.done
            THEN [st EXCEPT !.sent = Append(@, progress), !.interval = FALSE,
                            !.endTimer = TRUE]
            ELSE [st EXCEPT !.sent = Append(@, progress)]
    ELSE [st EXCEPT !.sent = Append(@, SynthEvent), !.interval = FALSE,
                    !.endTimer = TRUE]

StreamTick(s) ==
    /\ streams[s].interval
    /\ Len(streams[s].sent) < MaxEvents
    /\ streams' = [streams EXCEPT ![s] = streamTick(@, downloadProgress)]
    /\ onCompleteCalls' = <<>>
    /\ UNCHANGED <<config, info, streamProcs, call, tempDir, queue, activeDownloads, downloadProgress, purgeTimers, proc, now,
                   responses, completeCount>>

\* the interval callback when res.write throws: the catch clears the interval
StreamWriteError(s) ==
    /\ streams[s].interval
    /\ streams[s].downloadId \in DOMAIN downloadProgress
    /\ streams' = [streams EXCEPT ![s].interval = FALSE]
    /\ onCompleteCalls' = <<>>
    /\ UNCHANGED <<config, info, streamProcs, call, tempDir, queue, activeDownloads, downloadProgress, purgeTimers, proc, now,
                   responses, completeCount>>

\* the 100 ms timer armed with the final event fires: res.end()
StreamEnd(s) ==
    /\ streams[s].endTimer
    /\ streams' = [streams EXCEPT ![s].endTimer = FALSE, ![s].ended = TRUE]
    /\ onCompleteCalls' = <<>>
    /\ UNCHANGED <<config, info, streamProcs, call, tempDir, queue, activeDownloads, downloadProgress, purgeTimers, proc, now,
                   responses, completeCount>>

\* a 'close' handler that forgets the interval
onCloseLeak(st) == [st EXCEPT !.connected = FALSE]

\* the req.on('close') handler: clearInterval(interval)
onClose(st) == [st EXCEPT !.connected = FALSE, !.interval = FALSE]

\* req 'close': the client went away
StreamDisconnect(s) ==
    /\ streams[s].connected
    /\ streams' = [streams EXCEPT ![s] = onClose(@)]
    /\ onCompleteCalls' = <<>>
    /\ UNCHANGED <<config, info, streamProcs, call, tempDir, queue, activeDownloads, downloadProgress, purgeTimers, proc, now,
                   responses, completeCount>>

\* the DownloadQueue, its subprocesses and the Progress Store
QueueNext ==
    \/ Submit
    \/ Tick
    \/ \E id \in Ids, pct \in Pcts : ProcOutput(id, pct)
    \/ \E id \in Ids : ProcCloseOk(id, "filename")
    \/ \E id \in Ids : ProcFlushed(id)
    \/ \E id \in Ids : ProcCloseFail(id)
    \/ \E id \in Ids : ProcSpawnError(id)
    \/ Sweep
    \/ \E id \in Ids \cup {UnknownId} : Cancel(id)
    \/ \E id \in Ids : PurgeTimer(id)

Next == QueueNext

Spec == Init /\ [][Next]_vars

\* --------------------------------------------------------- GET /stream
\* streamVideo once getVideoInfo has answered: the headers are written and
\* streamDownload spawns yt-dlp with -o -, its stdout piped to the response
StreamVideo ==
    /\ streamProcs < MaxDirect
    /\ streamProcs' = streamProcs + 1
    /\ onCompleteCalls' = <<>>
    /\ UNCHANGED <<config, info, call, tempDir, queue, activeDownloads, downloadProgress,
                   purgeTimers, proc, now, responses, completeCount, streams>>

\* a subprocess of streamDownload exits: its stdout ends and so does the response
StreamProcExit ==
    /\ streamProcs > 0
    /\ streamProcs' = streamProcs - 1
    /\ onCompleteCalls' = <<>>
    /\ UNCHANGED <<config, info, call, tempDir, queue, activeDownloads, downloadProgress,
                   purgeTimers, proc, now, responses, completeCount, streams>>

DirectSubmit == Len(responses) < DirectJobs /\ Submit

\* queued downloads and direct streaming requests on one server
DirectNext ==
    \/ DirectSubmit
    \/ Tick
    \/ \E id \in Ids, pct \in Pcts : ProcOutput(id, pct)
    \/ \E id \in Ids : ProcCloseOk(id, "filename")
    \/ \E id \in Ids : ProcFlushed(id)
    \/ \E id \in Ids : ProcCloseFail(id)
    \/ \E id \in Ids : ProcSpawnError(id)
    \/ Sweep
    \/ \E id \in Ids : PurgeTimer(id)
    \/ StreamVideo
    \/ StreamProcExit

DirectSpec == Init /\ [][DirectNext]_vars

\* ------------------------------------------- yt-dlp output, line by line
\* a line without a percentage
NoPct == -1
\* percentages a "[download]" line may carry: what /(\d+\.?\d*)%/ matches
PctTokens == {0, 30, 99, 100, 150}
\* the lines of yt-dlp this model distinguishes; "[Merger]" and
\* "[ExtractAudio]" are the post-processing steps' lines
Lines ==
    {[tag |-> "[download]", pct |-> p] : p \in PctTokens \cup {NoPct}}
        \cup {[tag |-> "[Merger]", pct |-> NoPct], [tag |-> "[ExtractAudio]", pct |-> NoPct]}
PhaseMarkers == {l \in Lines : l.tag \in {"[Merger]", "[ExtractAudio]"}}

\* line.includes('[download]') and the percentage pattern matches
progressMatch(line) == line.tag = "[download]" /\ line.pct # NoPct

\* the body of the loop over the lines of a 'data' chunk, stdout and stderr alike
parseLine(dp, id, line) ==
    IF progressMatch(line)
    THEN onProgress(dp, id, line.pct, "Unknown", "Unknown")
    ELSE dp

\* stdout/stderr 'data' carrying one line; yt-dlp prints its post-processing
\* lines once a download has printed 100%
ProcData(id, line) ==
    /\ proc[id] \in {"spawned", "running"}
    /\ line \in PhaseMarkers =>
          id \in DOMAIN downloadProgress /\ downloadProgress[id].maxProgress >= 100
    /\ proc' = [proc EXCEPT ![id] = "running"]
    /\ downloadProgress' = parseLine(downloadProgress, id, line)
    /\ tempDir' = tempDir \cup {tempFile(id)}
    /\ call' = [op |-> "data", downloadId |-> id, line |-> line]
    /\ onCompleteCalls' = <<>>
    /\ UNCHANGED <<config, info, streamProcs, queue, activeDownloads, purgeTimers, now, responses,
                   completeCount, streams>>

ParseSubmit == Len(responses) < ParseJobs /\ Submit

ParseNext ==
    \/ ParseSubmit
    \/ Tick
    \/ \E id \in Ids, line \in Lines : ProcData(id, line)
    \/ \E id \in Ids : ProcCloseOk(id, "filename")
    \/ \E id \in Ids : ProcFlushed(id)
    \/ \E id \in Ids : ProcCloseFail(id)
    \/ \E id \in Ids : ProcSpawnError(id)
    \/ Sweep
    \/ \E id \in Ids : PurgeTimer(id)

ParseSpec == Init /\ [][ParseNext]_vars

\* the server as its routes drive it (no route calls cancelDownload), with a
\* progress stream attached, for StreamJobs submissions
StreamSubmit == Len(responses) < StreamJobs /\ Submit

StreamNext ==
    \/ StreamSubmit
    \/ Tick
    \/ \E id \in Ids, pct \in Pcts : ProcOutput(id, pct)
    \/ \E id \in Ids : ProcCloseOk(id, "filename")
    \/ \E id \in Ids : ProcFlushed(id)
    \/ \E id \in Ids : ProcCloseFail(id)
    \/ \E id \in Ids : ProcSpawnError(id)
    \/ Sweep
    \/ \E id \in Ids : PurgeTimer(id)
    \/ \E s \in StreamIds, id \in (1..Len(responses)) \cup {UnknownId} : StreamOpen(s, id)
    \/ \E s \in StreamIds : StreamTick(s)
    \/ \E s \in StreamIds : StreamWriteError(s)
    \/ \E s \in StreamIds : StreamEnd(s)
    \/ \E s \in StreamIds : StreamDisconnect(s)

\* the DownloadQueue with its timers left to the event loop: the clock
\* advances and the 60 s sweep interval, the flush timers and the purge timers
\* fire when due; submissions arrive before the clock reaches MaxTime, so that
\* every wait can outlast queueTimeout within the run
LiveJobs == 2

LiveSubmit == now < MaxTime /\ Len(responses) < LiveJobs /\ Submit

LiveNext ==
    \/ LiveSubmit
    \/ Tick
    \/ \E id \in Ids, pct \in Pcts : ProcOutput(id, pct)
    \/ \E id \in Ids : ProcCloseOk(id, "filename")
    \/ \E id \in Ids : ProcFlushed(id)
    \/ \E id \in Ids : ProcCloseFail(id)
    \/ \E id \in Ids : ProcSpawnError(id)
    \/ Sweep
    \/ \E id \in Ids \cup {UnknownId} : Cancel(id)
    \/ \E id \in Ids : PurgeTimer(id)

LiveSpec ==
    /\ Init
    /\ [][LiveNext]_vars
    /\ WF_vars(Tick)
    /\ WF_vars(Sweep)
    /\ \A id \in Ids : WF_vars(ProcFlushed(id))
    /\ \A id \in Ids : WF_vars(PurgeTimer(id))

StreamInit ==
    /\ Init
    /\ maxConcurrent = 1
    /\ maxQueueSize = 1

StreamSpec == StreamInit /\ [][StreamNext]_vars

\* ------------------------------------------------------- strings
\* a string is a sequence of tokens; a token is one character, or a run of
\* characters that the checks below never need to split
\* validators.ts: if (downloadId.length > 100)
MaxIdLength == 100
\* a run of letters one short of the longest id
LongRun == "a..a"
\* String.length
tokenLength(c) == IF c = LongRun THEN MaxIdLength - 1 ELSE 1
RECURSIVE length(_)
length(str) == IF str = <<>> THEN 0 ELSE tokenLength(Head(str)) + length(Tail(str))
\* String.startsWith
isPrefix(pre, str) == Len(pre) <= Len(str) /\ SubSeq(str, 1, Len(pre)) = pre
StringsOver(tokens, n) == UNION {[1..k -> tokens] : k \in 0..n}

\* ------------------------------------------------------- PathValidator
\* an id check that lets the dot through
idCharOkWithDot(c) == c \in {"a", "Z", "7", "-", LongRun, "."}

\* the character class [a-zA-Z0-9\-]
idCharOk(c) == c \in {"a", "Z", "7", "-", LongRun}

\* PathValidator.validateDownloadId: TRUE when it returns, FALSE when it throws
validateDownloadId(downloadId) ==
    /\ downloadId # <<>>
    /\ \A i \in 1..Len(downloadId) : idCharOk(downloadId[i])
    /\ length(downloadId) <= MaxIdLength

\* path.sep
sep == "/"
\* process.cwd()
Cwd == <<sep, "w">>

\* one step of path.resolve over the part before the next separator
RECURSIVE resolveSegments(_, _, _)
resolveSegments(str, seg, stack) ==
    LET push == IF seg = <<>> \/ seg = <<".">> THEN stack
                ELSE IF seg = <<"..">>
                     THEN (IF stack = <<>> THEN stack ELSE SubSeq(stack, 1, Len(stack) - 1))
                     ELSE Append(stack, seg)
    IN IF str = <<>> THEN push
       ELSE IF Head(str) = sep THEN resolveSegments(Tail(str), <<>>, push)
            ELSE resolveSegments(Tail(str), Append(seg, Head(str)), stack)

RECURSIVE joinSegments(_)
joinSegments(stack) ==
    IF stack = <<>> THEN <<>> ELSE <<sep>> \o Head(stack) \o joinSegments(Tail(stack))

\* normalize(resolve(p)): absolute, no '.', '..' or empty segments
resolve(p) ==
    LET absolute == IF p # <<>> /\ Head(p) = sep THEN p ELSE Cwd \o <<sep>> \o p
        stack == resolveSegments(absolute, <<>>, <<>>)
    IN IF stack = <<>> THEN <<sep>> ELSE joinSegments(stack)

\* path.join(dir, name)
join(dir, name) == dir \o <<sep>> \o name

\* a containment check that compares with the bare directory name
withinNoSep(normalizedPath, normalizedAllowedDir) ==
    isPrefix(normalizedAllowedDir, normalizedPath)

\* the condition of PathValidator.validatePath, negated: the path is let through
within(normalizedPath, normalizedAllowedDir) ==
    \/ isPrefix(normalizedAllowedDir \o <<sep>>, normalizedPath)
    \/ normalizedPath = normalizedAllowedDir

\* PathValidator.validatePath: ok is FALSE when it throws
validatePath(filePath, allowedDir) ==
    LET normalizedPath == resolve(filePath)
        normalizedAllowedDir == resolve(allowedDir)
    IN [ok |-> within(normalizedPath, normalizedAllowedDir), path |-> normalizedPath]

\* ------------------------------------------------------- FilenameValidator
\* String.endsWith
endsWith(str, suffix) ==
    Len(suffix) <= Len(str) /\ SubSeq(str, Len(str) - Len(suffix) + 1, Len(str)) = suffix
\* String.substring(0, n), for strings whose tokens are single characters
RECURSIVE substring(_, _)
substring(str, n) ==
    IF str = <<>> \/ tokenLength(Head(str)) > n THEN <<>>
    ELSE <<Head(str)>> \o substring(Tail(str), n - tokenLength(Head(str)))
\* replace(/[. ]+$/, '') and the like: drop the trailing characters of a class
RECURSIVE stripTrailing(_, _)
stripTrailing(str, class) ==
    IF str # <<>> /\ str[Len(str)] \in class
    THEN stripTrailing(SubSeq(str, 1, Len(str) - 1), class)
    ELSE str
RECURSIVE stripLeading(_, _)
stripLeading(str, class) ==
    IF str # <<>> /\ Head(str) \in class THEN stripLeading(Tail(str), class) ELSE str
\* sanitize-filename: illegal characters are removed, then trailing dots and spaces
sanitize(title) == stripTrailing(SelectSeq(title, LAMBDA c : c # sep), {".", " "})
\* the character class [a-zA-Z0-9_\-]
safeChar(c) == c \in {"a", "Z", "7", "_", "-"}
\* replace(/[^a-zA-Z0-9_\-]/g, '_')
replaceUnsafe(str) == [i \in 1..Len(str) |-> IF safeChar(str[i]) THEN str[i] ELSE "_"]
\* replace(/_+/g, '_')
RECURSIVE collapseUnderscores(_)
collapseUnderscores(str) ==
    IF Len(str) < 2 THEN str
    ELSE IF str[1] = "_" /\ str[2] = "_" THEN collapseUnderscores(Tail(str))
         ELSE <<Head(str)>> \o collapseUnderscores(Tail(str))
AllowedExtensions == {"mp4", "mp3", "webm"}
\* FilenameValidator.createSafeFilename: ok is FALSE when it throws
createSafeFilename(title, extension) ==
    LET safeTitle ==
            substring(stripTrailing(stripLeading(
                collapseUnderscores(replaceUnsafe(sanitize(title))), {"_"}), {"_"}),
                MaxIdLength)
    IN IF extension \notin AllowedExtensions \/ safeTitle = <<>>
       THEN [ok |-> FALSE, name |-> <<>>]
       ELSE [ok |-> TRUE, name |-> safeTitle \o <<".", extension>>]

\* String.split(separator): the parts, cur being the part under construction
RECURSIVE split(_, _, _)
split(str, separator, cur) ==
    IF str = <<>> THEN <<cur>>
    ELSE IF Head(str) = separator THEN <<cur>> \o split(Tail(str), separator, <<>>)
         ELSE split(Tail(str), separator, Append(cur, Head(str)))
\* Array.slice(start)
slice(parts, start) == SubSeq(parts, start + 1, Len(parts))
\* Array.join(separator)
RECURSIVE joinParts(_, _)
joinParts(parts, separator) ==
    IF parts = <<>> THEN <<>>
    ELSE IF Len(parts) = 1 THEN Head(parts)
         ELSE Head(parts) \o <<separator>> \o joinParts(Tail(parts), separator)

\* ------------------------------------------------------- getDownloadedFile
\* the file name of the response headers: targetFile.split('-').slice(2).join('-')
headerFilename(targetFile) == joinParts(slice(split(targetFile, "-", <<>>), 2), "-")
\* the Content-Type header
contentType(filename) ==
    IF endsWith(filename, <<".", "mp3">>) THEN "audio/mpeg" ELSE "video/mp4"
\* the temp directory of a file request: TEMP_PATH, or resolve(cwd, 'temp')
TempDirs == {<<sep, "t">>, resolve(<<"t">>), <<sep>>}
\* Array.prototype.find with f.startsWith(downloadId): 0 when nothing matches
RECURSIVE findIndexStartsWith(_, _, _)
findIndexStartsWith(files, downloadId, i) ==
    IF i > Len(files) THEN 0
    ELSE IF isPrefix(downloadId, files[i]) THEN i
         ELSE findIndexStartsWith(files, downloadId, i + 1)

\* getDownloadedFile: the response and the file system calls made on the way;
\* exists is what existsSync(tempDir) returns, files what readdirSync returns
getDownloadedFile(downloadId, dir, exists, files) ==
    IF downloadId = <<>> \/ ~validateDownloadId(downloadId)
    THEN [status |-> 400, fs |-> <<>>, served |-> <<>>]
    ELSE IF ~exists
    THEN [status |-> 404, fs |-> <<"existsSync">>, served |-> <<>>]
    ELSE LET i == findIndexStartsWith(files, downloadId, 1)
         IN IF i = 0
            THEN [status |-> 404, fs |-> <<"existsSync", "readdirSync">>, served |-> <<>>]
            ELSE LET targetFile == files[i]
                     tempFilePath == join(dir, targetFile)
                 IN IF ~validatePath(tempFilePath, dir).ok
                    THEN [status |-> 403, fs |-> <<"existsSync", "readdirSync">>,
                          served |-> <<>>]
                    ELSE [status |-> 200,
                          fs |-> <<"existsSync", "readdirSync", "createReadStream">>,
                          served |-> targetFile,
                          filename |-> headerFilename(targetFile),
                          contentType |-> contentType(headerFilename(targetFile))]

\* ------------------------------------------------------- file requests
\* the characters a requested id is made of
IdTokens == {"a", "7", "-", ".", sep, LongRun}
RequestIds == StringsOver(IdTokens, MaxIdTokens)

\* the id of a finished job and the names yt-dlp may have left for it, and
\* the file of another job
JobId == <<"a", "7">>
FetchNames ==
    {JobId \o <<".f251.", "webm">>, JobId \o <<".temp.", "mp4">>,
     JobId \o <<"-", "T", ".mp4">>, <<"7", "-", "T", ".mp4">>}
\* readdirSync: the names of a set of files, in the order the file system lists them
Orderings(names) ==
    {l \in [1..Cardinality(names) -> names] : \A i, j \in DOMAIN l : i # j => l[i] # l[j]}
Listings == UNION {Orderings(names) : names \in SUBSET FetchNames}

\* GET /file/:downloadId
\* what a request finds on disk: no temp directory, or one with a listing
DirStates ==
    {[exists |-> FALSE, files |-> <<>>]} \cup {[exists |-> TRUE, files |-> l] : l \in Listings}

GetDownloadedFile(downloadId, dir, found) ==
    /\ call' = [op |-> "getDownloadedFile", downloadId |-> downloadId, dir |-> dir,
                exists |-> found.exists, files |-> found.files,
                res |-> getDownloadedFile(downloadId, dir, found.exists, found.files)]
    /\ UNCHANGED <<config, info, streamProcs, tempDir, queue, activeDownloads, downloadProgress, purgeTimers,
                   proc, now, responses, completeCount, onCompleteCalls, streams>>

\* ------------------------------------------------ temp directory on disk
HexDigits == <<"a", "7">>
\* the download id of job id as generateDownloadId made it: hexadecimal digits
idString(id) == <<HexDigits[(id % 2) + 1], HexDigits[((id \div 2) % 2) + 1]>>
\* the name of a file of the temp directory: `${downloadId}-${filename}`, or
\* the other name the subprocess gave its output
fileName(f) ==
    idString(f[1]) \o <<"-">> \o
        (IF f[2] = "filename" THEN <<"T", ".", "mp4">> ELSE <<"T", ".temp.", "mp4">>)

\* GET /file/:downloadId for the id of job id, on the temp directory as it is;
\* downloadVideo creates the directory, readdirSync lists it in some order
FileFetch(id) ==
    /\ \E exists \in (IF Len(responses) > 0 THEN {TRUE} ELSE BOOLEAN),
          files \in Orderings({fileName(f) : f \in tempDir}) :
          call' = [op |-> "getDownloadedFile", downloadId |-> idString(id),
                   dir |-> <<sep, "t">>, exists |-> exists, files |-> files,
                   res |-> getDownloadedFile(idString(id), <<sep, "t">>, exists, files)]
    /\ onCompleteCalls' = <<>>
    /\ UNCHANGED <<config, info, streamProcs, tempDir, queue, activeDownloads, downloadProgress,
                   purgeTimers, proc, now, responses, completeCount, streams>>

\* the server and its temp directory, for FileJobs submissions; here the
\* subprocess may leave its output under any of OutputNames
FileSubmit == Len(responses) < FileJobs /\ Submit

FileNext ==
    \/ FileSubmit
    \/ Tick
    \/ \E id \in Ids, pct \in Pcts : ProcOutput(id, pct)
    \/ \E id \in Ids, name \in OutputNames : ProcCloseOk(id, name)
    \/ \E id \in Ids : ProcFlushed(id)
    \/ \E id \in Ids : ProcCloseFail(id)
    \/ \E id \in Ids : ProcSpawnError(id)
    \/ Sweep
    \/ \E id \in Ids : PurgeTimer(id)
    \/ \E id \in (1..Len(responses)) \cup {UnknownId} : FileFetch(id)

FileInit == StreamInit

FileSpec == FileInit /\ [][FileNext]_vars

\* the characters of a path handed to validatePath
PathTokens == {sep, "..", "t", "x", "f"}
AllowedDirs == {<<"t">>, <<sep, "t">>, <<sep>>}

\* PathValidator.validatePath(filePath, allowedDir)
ValidatePath(filePath, allowedDir) ==
    /\ call' = [op |-> "validatePath", filePath |-> filePath, allowedDir |-> allowedDir,
                res |-> validatePath(filePath, allowedDir)]
    /\ UNCHANGED <<config, info, streamProcs, tempDir, queue, activeDownloads, downloadProgress, purgeTimers,
                   proc, now, responses, completeCount, onCompleteCalls, streams>>

\* the characters of a video title
TitleTokens == {"a", "-", "_", " ", sep}
\* the id generateDownloadId returns: hexadecimal digits
GeneratedId == JobId

\* POST /download up to its response (the file name and the id it answers
\* with, the path it hands to yt-dlp), the download writing that file, and
\* GET /file/:downloadId for the id
DownloadThenFetch(title, audioOnly, dir) ==
    /\ LET extension == IF audioOnly THEN "mp3" ELSE "mp4"
           safe == createSafeFilename(title, extension)
           downloadId == GeneratedId
           tempFileName == downloadId \o <<"-">> \o safe.name
       IN call' = [op |-> "downloadThenFetch", title |-> title, audioOnly |-> audioOnly,
                   accepted |-> safe.ok, downloadId |-> downloadId,
                   filename |-> safe.name,
                   res |-> IF safe.ok
                           THEN getDownloadedFile(downloadId, dir, TRUE, <<tempFileName>>)
                           ELSE [status |-> 0]]
    /\ UNCHANGED <<config, info, streamProcs, tempDir, queue, activeDownloads, downloadProgress, purgeTimers,
                   proc, now, responses, completeCount, onCompleteCalls, streams>>

\* one call per run, on a server that has no job
FetchNext ==
    /\ call = NoCall
    /\ \/ \E downloadId \in RequestIds, dir \in TempDirs, found \in DirStates :
             GetDownloadedFile(downloadId, dir, found)
       \/ \E title \in StringsOver(TitleTokens, MaxTitleTokens), audioOnly \in BOOLEAN :
             DownloadThenFetch(title, audioOnly, <<sep, "t">>)
       \/ \E filePath \in StringsOver(PathTokens, MaxPathTokens), allowedDir \in AllowedDirs :
             ValidatePath(filePath, allowedDir)

FetchInit == StreamInit

FetchSpec == FetchInit /\ [][FetchNext]_vars

\* ------------------------------------------- YtDlpService.getVideoInfo
\* private cacheTTL = 15 * 60 * 1000
cacheTTL == 900000
\* if (this.cache.size > 50)
MaxCacheSize == 50
\* the clock of a metadata run advances in steps of half the TTL
ClockStep == cacheTTL \div 2

\* the place of url in the Map, 0 when the Map does not hold it
cacheIndex(c, url) ==
    IF \E i \in 1..Len(c) : c[i].url = url
    THEN CHOOSE i \in 1..Len(c) : c[i].url = url
    ELSE 0
\* cache.set(url, {data, timestamp}): a Map keeps the place of a key it holds
cacheSet(c, url, t) ==
    IF cacheIndex(c, url) # 0
    THEN [c EXCEPT ![cacheIndex(c, url)].timestamp = t]
    ELSE Append(c, [url |-> url, timestamp |-> t])
\* Array.from(entries()).sort((a, b) => a[1].timestamp - b[1].timestamp)[0][0];
\* the sort is stable, so among equal timestamps the first in Map order wins
oldestKey(c) ==
    c[CHOOSE i \in 1..Len(c) :
        /\ \A j \in 1..Len(c) : c[j].timestamp >= c[i].timestamp
        /\ \A j \in 1..(i - 1) : c[j].timestamp > c[i].timestamp].url
\* cache.delete(key)
cacheDelete(c, key) == SelectSeq(c, LAMBDA e : e.url # key)
\* the close handler on code 0: cache the result, then trim the cache
cacheResult(c, url, t) ==
    LET c1 == cacheSet(c, url, t)
    IN IF Len(c1) > MaxCacheSize THEN cacheDelete(c1, oldestKey(c1)) ELSE c1

Range(m) == {m[x] : x \in DOMAIN m}
\* the promise (and subprocess) a new request for url creates, named
\* <<url, k>>: the first such name that no live promise or subprocess has
newPromise(pend, procs, url) ==
    LET used == Range(pend) \cup DOMAIN procs
    IN <<url, CHOOSE k \in 1..(Cardinality(used) + 1) :
                /\ <<url, k>> \notin used
                /\ \A j \in 1..(k - 1) : <<url, j>> \in used>>

\* a lookup that does not consult the pending requests
getVideoInfoNoDedup(c, pend, procs, url, t) ==
    LET i == cacheIndex(c, url)
    IN IF i # 0 /\ t - c[i].timestamp < cacheTTL
       THEN [kind |-> "cached", promise |-> <<>>]
       ELSE [kind |-> "spawned", promise |-> newPromise(pend, procs, url)]

\* getVideoInfo up to its return: what it returns and whether it spawns
getVideoInfo(c, pend, procs, url, t) ==
    LET i == cacheIndex(c, url)
    IN IF i # 0 /\ t - c[i].timestamp < cacheTTL
       THEN [kind |-> "cached", promise |-> <<>>]
       ELSE IF url \in DOMAIN pend
            THEN [kind |-> "pending", promise |-> pend[url]]
            ELSE [kind |-> "spawned", promise |-> newPromise(pend, procs, url)]

\* url becomes the most recently used
touch(order, url) == SelectSeq(order, LAMBDA u : u # url) \o <<url>>
CachedUrls(c) == {c[i].url : i \in 1..Len(c)}

\* a call of getVideoInfo(url)
GetVideoInfo(url) ==
    /\ LET r == getVideoInfo(cache, pendingRequests, lookupProc, url, now)
       IN /\ IF r.kind = "spawned"
             THEN /\ pendingRequests' = MapSet(pendingRequests, url, r.promise)
                  /\ lookupProc' = MapSet(lookupProc, r.promise,
                                          [url |-> url, state |-> "running"])
             ELSE UNCHANGED <<pendingRequests, lookupProc>>
          /\ recency' = IF r.kind = "cached" THEN touch(recency, url) ELSE recency
    /\ UNCHANGED <<config, streamProcs, call, cache, tempDir, queue, activeDownloads, downloadProgress,
                   purgeTimers, proc, now, responses, completeCount, onCompleteCalls,
                   streams>>

\* 'close' with code 0 and parsable output: cache.set, trim, resolve, finally
LookupCloseOk(p) ==
    /\ p \in DOMAIN lookupProc
    /\ lookupProc[p].state = "running"
    /\ LET url == lookupProc[p].url
       IN /\ cache' = cacheResult(cache, url, now)
          /\ pendingRequests' = MapDelete(pendingRequests, url)
          /\ recency' = SelectSeq(touch(recency, url), LAMBDA u : u \in CachedUrls(cache'))
    /\ lookupProc' = MapDelete(lookupProc, p)
    /\ UNCHANGED <<config, streamProcs, call, tempDir, queue, activeDownloads, downloadProgress,
                   purgeTimers, proc, now, responses, completeCount, onCompleteCalls,
                   streams>>

\* 'close' with a non-zero code, with no output or with output that does not
\* parse: reject, finally
LookupCloseFail(p) ==
    /\ p \in DOMAIN lookupProc
    /\ lookupProc[p].state = "running"
    /\ pendingRequests' = MapDelete(pendingRequests, lookupProc[p].url)
    /\ lookupProc' = MapDelete(lookupProc, p)
    /\ UNCHANGED <<config, streamProcs, call, cache, recency, tempDir, queue, activeDownloads,
                   downloadProgress, purgeTimers, proc, now, responses, completeCount,
                   onCompleteCalls, streams>>

\* 'error': the executable could not be started; pendingRequests.delete,
\* reject, finally
LookupSpawnError(p) ==
    /\ p \in DOMAIN lookupProc
    /\ lookupProc[p].state = "running"
    /\ pendingRequests' = MapDelete(pendingRequests, lookupProc[p].url)
    /\ lookupProc' = [lookupProc EXCEPT ![p].state = "errored"]
    /\ UNCHANGED <<config, streamProcs, call, cache, recency, tempDir, queue, activeDownloads,
                   downloadProgress, purgeTimers, proc, now, responses, completeCount,
                   onCompleteCalls, streams>>

\* the 'close' that follows 'error': reject on a promise already settled
LookupCloseAfterError(p) ==
    /\ p \in DOMAIN lookupProc
    /\ lookupProc[p].state = "errored"
    /\ lookupProc' = MapDelete(lookupProc, p)
    /\ UNCHANGED <<config, streamProcs, call, cache, pendingRequests, recency, tempDir, queue,
                   activeDownloads, downloadProgress, purgeTimers, proc, now, responses,
                   completeCount, onCompleteCalls, streams>>

\* Date.now() advances
InfoTick ==
    /\ now < MaxClockTicks * ClockStep
    /\ now' = now + ClockStep
    /\ UNCHANGED <<config, info, streamProcs, call, tempDir, queue, activeDownloads, downloadProgress,
                   purgeTimers, proc, responses, completeCount, onCompleteCalls, streams>>

\* metadata requests for InfoUrls urls, arriving at any time while fewer
\* than InfoUrls subprocesses are alive
InfoRequest(url) == Cardinality(DOMAIN lookupProc) < InfoUrls /\ GetVideoInfo(url)

InfoNext ==
    \/ \E url \in 1..InfoUrls : InfoRequest(url)
    \/ \E p \in DOMAIN lookupProc : LookupCloseOk(p)
    \/ \E p \in DOMAIN lookupProc : LookupCloseFail(p)
    \/ \E p \in DOMAIN lookupProc : LookupSpawnError(p)
    \/ \E p \in DOMAIN lookupProc : LookupCloseAfterError(p)
    \/ InfoTick

InfoInit == StreamInit

InfoSpec == InfoInit /\ [][InfoNext]_vars

\* the url no request has asked for yet
FreshUrl ==
    IF cache = <<>> THEN 1
    ELSE 1 + CHOOSE u \in CachedUrls(cache) : \A v \in CachedUrls(cache) : v <= u

\* metadata requests that arrive one after the other: each for a url of its
\* own, or, once the cache is full, for one of the first MaxReasked urls again
CacheRequest(url) ==
    /\ pendingRequests = EmptyMap
    /\ lookupProc = EmptyMap
    /\ url <= MaxCacheSize + ExtraUrls
    /\ url = FreshUrl \/ Len(cache) = MaxCacheSize
    /\ GetVideoInfo(url)

CacheNext ==
    \/ \E url \in (1..MaxReasked) \cup {FreshUrl} : CacheRequest(url)
    \/ \E p \in DOMAIN lookupProc : LookupCloseOk(p)
    \/ \E p \in DOMAIN lookupProc : LookupCloseFail(p)
    \/ \E p \in DOMAIN lookupProc : LookupSpawnError(p)
    \/ \E p \in DOMAIN lookupProc : LookupCloseAfterError(p)
    \/ InfoTick

CacheInit == StreamInit

CacheSpec == CacheInit /\ [][CacheNext]_vars

\* ------------------------------------------------------------ properties
ActiveIds == DOMAIN activeDownloads
IdsOf(q) == [i \in 1..Len(q) |-> q[i].downloadId]
QueueIds == {queue[i].downloadId : i \in 1..Len(queue)}
\* the subprocess of job id ends in this step (startDownload settles)
Finishes(id) == proc[id] # "exited" /\ proc'[id] = "exited"
\* a submission is answered in this step
Submits == Len(responses') = Len(responses) + 1
WaitedTooLong(download) == now - download.addedAt > queueTimeout
StillFresh(download) == ~WaitedTooLong(download)
Without(sq, x) == SelectSeq(sq, LAMBDA y : y # x)

\* C1: the active set never holds more than maxConcurrent jobs.
C1_ActiveBounded == Cardinality(ActiveIds) <= maxConcurrent

\* every slot taken while jobs wait, after some job has already finished
C1_Witness ==
    /\ Cardinality(ActiveIds) = maxConcurrent
    /\ Len(queue) > 0
    /\ \E id \in Ids : proc[id] = "exited"

\* C2: when the subprocess of an active job ends (success or failure) the job
\* leaves the active set, no other job leaves it, and the head of a non-empty
\* queue (and nothing else) is promoted.
C2_CompletionFreesSlotAndPromotes ==
    [][\A id \in Ids : Finishes(id) =>
          /\ id \in ActiveIds
          /\ id \notin ActiveIds'
          /\ IF queue = <<>>
             THEN /\ ActiveIds' = ActiveIds \ {id}
                  /\ queue' = <<>>
             ELSE /\ ActiveIds' = (ActiveIds \ {id}) \cup {Head(queue).downloadId}
                  /\ IdsOf(queue') = Tail(IdsOf(queue))
                  /\ proc'[Head(queue).downloadId] = "spawned"]_vars

\* a job has just failed and the job that waited first now runs
C2_Witness ==
    \E id \in Ids :
        /\ onCompleteCalls = << <<id, ExitCodeMsg>> >>
        /\ id \notin ActiveIds
        /\ \E j \in ActiveIds : activeDownloads[j].queuePosition = 1 /\ proc[j] = "spawned"

\* C3: a submission that finds maxQueueSize jobs waiting is answered
\* queued=false with an error, changes neither the queue nor the active set,
\* calls no callback, and its id is never in the Progress Store afterwards.
C3_FullQueueRejects ==
    /\ [][(Submits /\ Len(queue) >= maxQueueSize) =>
            LET id == Len(responses')
            IN /\ ~responses'[id].queued
               /\ responses'[id].error # ""
               /\ queue' = queue
               /\ activeDownloads' = activeDownloads
               /\ id \notin DOMAIN downloadProgress'
               /\ onCompleteCalls' = <<>>
               /\ completeCount' = completeCount
               /\ proc' = proc]_vars
    /\ [](\A id \in 1..Len(responses) :
            ~responses[id].queued =>
                /\ id \notin DOMAIN downloadProgress
                /\ completeCount[id] = 0
                /\ proc[id] = "none"
                /\ id \notin ActiveIds \cup QueueIds)

\* a submission was rejected while the queue was full
C3_Witness ==
    /\ Len(responses) > 0
    /\ ~responses[Len(responses)].queued
    /\ Len(queue) = maxQueueSize

\* C4: jobs are promoted in submission order; a submission that finds a free
\* slot starts at once, one that finds every slot taken waits at the next
\* position; a completion promotes the head and moves the others up by one.
C4_FifoAdmission ==
    /\ [][\A b \in ActiveIds' \ ActiveIds : \A a \in QueueIds \cap QueueIds' : a > b]_vars
    /\ [][(Submits /\ responses'[Len(responses')].queued) =>
            LET id == Len(responses')
            IN IF Cardinality(ActiveIds) < maxConcurrent /\ queue = <<>>
               THEN /\ ActiveIds' = ActiveIds \cup {id}
                    /\ queue' = <<>>
               ELSE /\ ActiveIds' = ActiveIds
                    /\ IdsOf(queue') = Append(IdsOf(queue), id)
                    /\ responses'[id].position = Len(queue')
                    /\ queue'[Len(queue')].queuePosition = Len(queue')]_vars
    /\ [][\A id \in Ids : (Finishes(id) /\ queue # <<>>) =>
            /\ Head(queue).downloadId \in ActiveIds'
            /\ Len(queue') = Len(queue) - 1
            /\ \A i \in 1..Len(queue') :
                  /\ queue'[i].downloadId = queue[i + 1].downloadId
                  /\ queue'[i].queuePosition = queue[i + 1].queuePosition - 1]_vars

\* the first job has finished, the first waiting job runs and the job that
\* waited behind it is now at position 1
C4_Witness ==
    /\ proc[1] = "exited"
    /\ (maxConcurrent + 1) \in ActiveIds
    /\ Len(queue) = 1
    /\ queue[1].downloadId = maxConcurrent + 2
    /\ queue[1].queuePosition = 1

\* C5: the progress value of a Progress Store entry never decreases.
C5_ProgressNeverDecreases ==
    [][\A id \in (DOMAIN downloadProgress) \cap (DOMAIN downloadProgress') :
          downloadProgress'[id].progress >= downloadProgress[id].progress]_vars

\* C6: the sweep removes exactly the queued jobs that waited longer than
\* queueTimeout, fails each of them with the timeout reason, keeps the others
\* in order and leaves positions 1..N.
C6_SweepEvictsTimedOut ==
    /\ [](LET r == cleanupTimedOutDownloads(queue, now)
          IN /\ IdsOf(r.queue) = IdsOf(SelectSeq(queue, StillFresh))
             /\ \A i \in 1..Len(r.queue) : r.queue[i].queuePosition = i
             /\ r.removed = IdsOf(SelectSeq(queue, WaitedTooLong)))
    /\ [][Sweep =>
            /\ IdsOf(queue') = IdsOf(SelectSeq(queue, StillFresh))
            /\ \A i \in 1..Len(queue') : queue'[i].queuePosition = i
            /\ \A i \in 1..Len(queue) : WaitedTooLong(queue[i]) =>
                  LET id == queue[i].downloadId
                  IN /\ InSeq(<<id, TimedOutMsg>>, onCompleteCalls')
                     /\ completeCount'[id] = completeCount[id] + 1
                     /\ id \in DOMAIN downloadProgress'
                     /\ downloadProgress'[id].status = "Error"
                     /\ downloadProgress'[id].eta = "Failed"]_vars

\* a sweep has evicted one job and kept a fresher one, now at position 1
C6_Witness ==
    /\ Len(onCompleteCalls) > 0
    /\ onCompleteCalls[1][2] = TimedOutMsg
    /\ Len(queue) > 0
    /\ queue[1].downloadId > onCompleteCalls[1][1]
    /\ downloadProgress[onCompleteCalls[1][1]].status = "Error"

\* C7: the queuePosition fields of the queued jobs are 1..N in queue order.
C7_PositionsContiguous ==
    \A i \in 1..Len(queue) : queue[i].queuePosition = i

\* a queued job was cancelled and the job behind it moved up
C7_Witness ==
    /\ Len(onCompleteCalls) = 1
    /\ onCompleteCalls[1][2] = CancelledMsg
    /\ Len(queue) > 0
    /\ queue[1].downloadId > onCompleteCalls[1][1]

\* C8: cancelDownload removes exactly the named job when it is queued, fails
\* it with the cancellation reason and returns true; for any other id it
\* returns false and changes nothing; cancel and sweep leave the active set alone.
C8_CancelOnlyQueued ==
    /\ [][\A id \in Ids \cup {UnknownId} : Cancel(id) =>
            IF id \in QueueIds
            THEN /\ cancelDownload(queue, id).ret
                 /\ IdsOf(queue') = Without(IdsOf(queue), id)
                 /\ onCompleteCalls' = << <<id, CancelledMsg>> >>
                 /\ completeCount'[id] = completeCount[id] + 1
                 /\ \A j \in Ids \ {id} : completeCount'[j] = completeCount[j]
            ELSE /\ ~cancelDownload(queue, id).ret
                 /\ UNCHANGED <<queue, activeDownloads, downloadProgress,
                                purgeTimers, proc, completeCount>>
                 /\ onCompleteCalls' = <<>>]_vars
    /\ [][(Sweep \/ \E id \in Ids \cup {UnknownId} : Cancel(id)) =>
            /\ activeDownloads' = activeDownloads
            /\ proc' = proc]_vars

\* the second of two queued jobs was cancelled while another job was running
C8_Witness ==
    /\ Len(onCompleteCalls) = 1
    /\ onCompleteCalls[1][2] = CancelledMsg
    /\ ActiveIds # {}
    /\ Len(queue) = 1
    /\ queue[1].downloadId < onCompleteCalls[1][1]

\* C9: a stream that has pushed a terminal entry (Completed or Failed) has
\* stopped polling.
C9_TerminalEventClosesStream ==
    \A s \in StreamIds :
        LET sent == streams[s].sent
        IN (sent # <<>> /\ sent[Len(sent)].status \in {"Completed", "Error"})
              => ~streams[s].interval

\* C10: a poll that finds the id absent pushes one done=true event and stops
\* the stream; when that is the first event it stays the only one.
C10_AbsentIdSingleDoneEvent ==
    /\ [][\A s \in StreamIds :
            (/\ streams[s].interval
             /\ streams[s].downloadId \notin DOMAIN downloadProgress
             /\ streams'[s].sent # streams[s].sent) =>
                /\ Len(streams'[s].sent) = Len(streams[s].sent) + 1
                /\ streams'[s].sent[Len(streams'[s].sent)].done
                /\ streams'[s].sent[Len(streams'[s].sent)].progress = 100
                /\ ~streams'[s].interval
                /\ streams'[s].endTimer]_vars
    /\ [](\A s \in StreamIds :
            (streams[s].sent # <<>> /\ streams[s].sent[1] = SynthEvent) =>
                /\ Len(streams[s].sent) = 1
                /\ ~streams[s].interval)
    /\ [][\A s \in StreamIds :
            (~streams[s].interval /\ streams[s].opened) =>
                streams'[s].sent = streams[s].sent]_vars

\* a stream for an id that is not in the store got its single event and ended
C10_Witness ==
    \E s \in StreamIds :
        /\ streams[s].sent = <<SynthEvent>>
        /\ streams[s].ended
        /\ streams[s].downloadId \notin DOMAIN downloadProgress

PushedDone(sent) == \E i \in 1..Len(sent) : sent[i].done

\* C11: each way a stream ends (a done=true event, the absent id, a write
\* error, the client's disconnect) leaves its polling timer cancelled, a
\* cancelled timer is never armed again, and a stream that has lost its
\* client or has pushed a done=true event pushes nothing more.
C11_StreamTimerCancelled ==
    /\ [][\A s \in StreamIds :
            /\ (StreamWriteError(s) \/ StreamDisconnect(s)) => ~streams'[s].interval
            /\ (streams[s].opened /\ streams'[s].sent # streams[s].sent
                   /\ streams'[s].sent[Len(streams'[s].sent)].done) =>
                  ~streams'[s].interval
            /\ (streams[s].opened /\ ~streams[s].interval) => ~streams'[s].interval
            /\ (streams[s].opened /\ (~streams[s].connected \/ PushedDone(streams[s].sent))) =>
                  streams'[s].sent = streams[s].sent]_vars
    /\ [](\A s \in StreamIds :
            (streams[s].opened /\ (~streams[s].connected \/ PushedDone(streams[s].sent))) =>
                ~streams[s].interval)

\* the client left a stream that had pushed an event for a job still in the
\* store and not yet done
C11_Witness ==
    \E s \in StreamIds :
        /\ ~streams[s].connected
        /\ streams[s].sent # <<>>
        /\ ~PushedDone(streams[s].sent)
        /\ streams[s].downloadId \in DOMAIN downloadProgress
        /\ ~downloadProgress[streams[s].downloadId].done

\* the events of stream s show that its job failed: it pushed the job's Failed
\* entry, or it pushed the job as waiting and the job was then evicted from
\* the queue (its completion callback ran, no subprocess was ever started)
SubscriberSawJobFail(s) ==
    LET sent == streams[s].sent
        id == streams[s].downloadId
    IN /\ streams[s].opened
       /\ id \in Ids
       /\ \/ \E i \in 1..Len(sent) : sent[i].status = "Error"
          \/ /\ sent # <<>>
             /\ sent[1].status = "Queued"
             /\ completeCount[id] > 0
             /\ proc[id] = "none"

\* C12: a stream whose job failed is never sent an event that reports the
\* job completed (done=true, progress 100).
C12_FailedNeverShownCompleted ==
    \A s \in StreamIds :
        SubscriberSawJobFail(s) =>
            \A i \in 1..Len(streams[s].sent) :
                ~(streams[s].sent[i].done /\ streams[s].sent[i].progress = 100)

\* the Progress Store shows the job in a terminal state
Terminal(entry) == entry.status \in {"Completed", "Error"}

\* C13: a terminal Progress Store entry does not change until it is purged;
\* a cancellation only ever hits a job that is waiting (entry Queued, not
\* active); an entry becomes Completed only for a job in the active set.
C13_TerminalStatesAbsorbing ==
    /\ [][\A id \in (DOMAIN downloadProgress) \cap (DOMAIN downloadProgress') :
            Terminal(downloadProgress[id]) => downloadProgress'[id] = downloadProgress[id]]_vars
    /\ [][\A id \in Ids :
            InSeq(<<id, CancelledMsg>>, onCompleteCalls') =>
                /\ id \in QueueIds
                /\ id \notin ActiveIds
                /\ proc[id] = "none"
                /\ downloadProgress[id].status = "Queued"]_vars
    /\ [][\A id \in DOMAIN downloadProgress' :
            (/\ downloadProgress'[id].status = "Completed"
             /\ ~(id \in DOMAIN downloadProgress /\ downloadProgress[id].status = "Completed")) =>
                /\ id \in ActiveIds
                /\ proc[id] = "flushing"]_vars

\* one job is shown Completed, one was cancelled while it waited and is shown
\* Failed, and a third is downloading
C13_Witness ==
    \E a, b, c \in DOMAIN downloadProgress :
        /\ downloadProgress[a].status = "Completed"
        /\ downloadProgress[b].status = "Error"
        /\ proc[b] = "none"
        /\ downloadProgress[c].status = "Downloading"

\* the subprocess of an active job ends with a failure in this step
FailsToRun(id) == proc[id] \in {"spawned", "running"} /\ proc'[id] = "exited"
\* the flush timer of a subprocess that exited with code 0 fires in this step
Flushes(id) == proc[id] = "flushing" /\ proc'[id] # "flushing"

\* C14: for an admitted job, exit code 0 ends in the completion callback
\* called without error and the entry Completed (progress 100, done); a
\* non-zero exit code or a spawn failure ends in the completion callback
\* called with that error and the entry Failed; the result of submit never
\* carries these errors.
C14_ExitOutcomeThroughCallback ==
    /\ [][\A id \in Ids :
            /\ (proc[id] # "flushing" /\ proc'[id] = "flushing") =>
                  /\ id \in ActiveIds /\ id \in ActiveIds'
                  /\ onCompleteCalls' = <<>>
                  /\ completeCount' = completeCount
            /\ Flushes(id) =>
                  /\ id \in ActiveIds
                  /\ proc'[id] = "exited"
                  /\ onCompleteCalls' = << <<id, NoError>> >>
                  /\ completeCount'[id] = completeCount[id] + 1
                  /\ downloadProgress'[id].status = "Completed"
                  /\ downloadProgress'[id].progress = 100
                  /\ downloadProgress'[id].done
            /\ FailsToRun(id) =>
                  /\ id \in ActiveIds
                  /\ \/ onCompleteCalls' = << <<id, ExitCodeMsg>> >>
                     \/ onCompleteCalls' = << <<id, SpawnMsg>> >>
                  /\ completeCount'[id] = completeCount[id] + 1
                  /\ downloadProgress'[id].status = "Error"
                  /\ downloadProgress'[id].eta = "Failed"
                  /\ ~downloadProgress'[id].done
            /\ Finishes(id) => responses' = responses]_vars
    /\ [](\A id \in 1..Len(responses) :
            /\ responses[id].error \in {"", QueueFullMsg}
            /\ responses[id].queued <=> responses[id].error = "")

\* the subprocess of an accepted job could not be spawned: the callback got
\* the error, the store shows Failed, the answer to the submission shows none
C14_Witness ==
    \E id \in 1..Len(responses) :
        /\ onCompleteCalls = << <<id, SpawnMsg>> >>
        /\ responses[id].queued
        /\ responses[id].error = ""
        /\ downloadProgress[id].status = "Error"
        /\ \E j \in DOMAIN downloadProgress : downloadProgress[j].status = "Completed"

\* the job is shown terminal and the timer that will purge its entry is pending
InRetention(id) == Terminal(downloadProgress[id]) /\ purgeTimers[id] > 0
Count(b) == IF b THEN 1 ELSE 0

\* C15: every id in the Progress Store is in exactly one of the queue, the
\* active set and the retention window (entry terminal, purge timer pending).
C15_StoreIdInExactlyOnePlace ==
    \A id \in DOMAIN downloadProgress :
        Count(id \in QueueIds) + Count(id \in ActiveIds) + Count(InRetention(id)) = 1

\* the store holds a waiting job, a running job and a finished job at once
C15_Witness ==
    \E a, b, c \in DOMAIN downloadProgress :
        /\ a \in QueueIds
        /\ b \in ActiveIds
        /\ InRetention(c)

\* what the directory search of getDownloadedFile can pick for downloadId
Candidates(dir, downloadId) == {f \in dir : startsWith(f, downloadId)}

\* C16: while a job is shown Completed its entry does not change and a fetch
\* of its id finds its file; when the retention timer fires the entry is
\* purged and a fetch of the id finds no file.
C16_CompletedFileKeptThenPurged ==
    /\ [](\A id \in DOMAIN downloadProgress :
            downloadProgress[id].status = "Completed" =>
                /\ Candidates(tempDir, id) # {}
                /\ purgeTimers[id] > 0)
    /\ [][\A id \in DOMAIN downloadProgress :
            downloadProgress[id].status = "Completed" =>
                IF id \in DOMAIN downloadProgress'
                THEN /\ downloadProgress'[id] = downloadProgress[id]
                     /\ Candidates(tempDir', id) = Candidates(tempDir, id)
                ELSE /\ purgeTimers'[id] = purgeTimers[id] - 1
                     /\ Candidates(tempDir', id) = {}]_vars

\* the call checked is a file request
IsFetch == call.op = "getDownloadedFile"
Letters == {"a", "Z", LongRun}
Digits == {"7"}
OutsideIdAlphabet(c) == c \notin Letters \cup Digits \cup {"-"}

\* C17: a file request whose id is empty, longer than 100 characters or has
\* a character that is no letter, digit or hyphen is answered 400 without any
\* file system call.
C17_BadIdRejectedBeforeFs ==
    IsFetch =>
        ((\/ call.downloadId = <<>>
          \/ length(call.downloadId) > 100
          \/ \E i \in 1..Len(call.downloadId) : OutsideIdAlphabet(call.downloadId[i]))
            => (call.res.status = 400 /\ call.res.fs = <<>> /\ call.res.served = <<>>))

\* "../" was asked for while the directory held files: 400, nothing touched
C17_Witness ==
    /\ IsFetch
    /\ call.downloadId = <<".", ".", sep>>
    /\ call.exists
    /\ call.files # <<>>
    /\ call.res.status = 400
    /\ call.res.fs = <<>>

\* an id of 101 characters, all of them letters or hyphens: 400
C17_TooLongRejected ==
    /\ IsFetch
    /\ length(call.downloadId) = 101
    /\ \A i \in 1..Len(call.downloadId) : ~OutsideIdAlphabet(call.downloadId[i])
    /\ call.res.status = 400

\* the name carries the intermediate-format pattern .f<digits>. or the .temp. marker
Intermediate(f) == \E i \in 1..Len(f) : f[i] \in {".f251.", ".temp."}
\* the files of the listing that a request for downloadId can resolve to
Matching(files, downloadId) ==
    {files[i] : i \in {j \in 1..Len(files) : isPrefix(downloadId, files[j])}}

\* C18: when files of the temp directory start with the id of a job, the one
\* served is free of the intermediate pattern and of the temp marker whenever
\* such a file is among them, in every listing order; it is the first match
\* only when none of them is clean.
C18_CleanCandidatePreferred ==
    (IsFetch /\ call.downloadId = JobId /\ call.res.status = 200) =>
        LET matching == Matching(call.files, call.downloadId)
        IN /\ call.res.served \in matching
           /\ (\E f \in matching : ~Intermediate(f)) => ~Intermediate(call.res.served)
           /\ (\A f \in matching : Intermediate(f)) =>
                 call.res.served = call.files[findIndexStartsWith(call.files, call.downloadId, 1)]

IsValidatePath == call.op = "validatePath"
\* the directory names from the root down to p, once '.', '..' and empty
\* segments are resolved
SegmentsOf(p) ==
    resolveSegments(IF p # <<>> /\ Head(p) = sep THEN p ELSE Cwd \o <<sep>> \o p, <<>>, <<>>)
\* p is dir itself or lies below it
InsideDir(p, dir) == isPrefix(SegmentsOf(dir), SegmentsOf(p))

\* C19: validatePath returns only for a path that resolves to allowedDir or
\* to a place below it (allowedDir, the separator, more), so a path that
\* leaves through '..' and a sibling whose name begins with the directory's
\* name throw; a file request whose path fails the check is answered 403 and
\* opens no file.
C19_PathStaysInsideAllowedDir ==
    /\ IsValidatePath =>
          /\ call.res.ok => InsideDir(call.filePath, call.allowedDir)
          /\ call.res.ok =>
                \/ call.res.path = resolve(call.allowedDir)
                \/ isPrefix(resolve(call.allowedDir) \o <<sep>>, call.res.path)
    /\ IsFetch =>
          LET i == findIndexStartsWith(call.files, call.downloadId, 1)
          IN (call.exists /\ validateDownloadId(call.downloadId) /\ i # 0) =>
                IF validatePath(join(call.dir, call.files[i]), call.dir).ok
                THEN call.res.status = 200
                ELSE /\ call.res.status = 403
                     /\ call.res.served = <<>>
                     /\ ~InSeq("createReadStream", call.res.fs)

\* a sibling directory whose name begins with the allowed directory's name was refused
C19_Witness ==
    /\ IsValidatePath
    /\ call.allowedDir = <<sep, "t">>
    /\ call.filePath = <<sep, "t", "x", sep, "f">>
    /\ ~call.res.ok

\* a path that climbs out with '..' was refused
C19_EscapeRefused ==
    /\ IsValidatePath
    /\ call.allowedDir = <<"t">>
    /\ call.filePath = <<"t", sep, "..", sep, "f">>
    /\ ~call.res.ok

\* a file request was refused by the path check
C19_FetchRefused == IsFetch /\ call.res.status = 403

\* a path inside the allowed directory was let through
C19_InsideAccepted ==
    /\ IsValidatePath
    /\ call.allowedDir = <<sep, "t">>
    /\ call.filePath = <<sep, "t", sep, "f">>
    /\ call.res.ok

\* C20: a submission that is accepted and still waits when submit returns is
\* told its 1-based index in the queue at that moment, which is the position
\* getQueueStatus reports for it right then; every position returned for an
\* accepted submission is between 1 and maxQueueSize.
C20_ReturnedPositionIsQueueIndex ==
    /\ [][Submits =>
            LET id == Len(responses')
                ret == responses'[id]
            IN (ret.queued /\ id \in QueueIds') =>
                  /\ ret.position \in 1..Len(queue')
                  /\ queue'[ret.position].downloadId = id
                  /\ getQueueStatus(queue', activeDownloads', id).status = "queued"
                  /\ getQueueStatus(queue', activeDownloads', id).position = ret.position]_vars
    /\ [](\A id \in 1..Len(responses) :
            responses[id].queued => responses[id].position \in 1..maxQueueSize)

\* the last submission was accepted behind another waiting job: position 2
C20_Witness ==
    /\ Len(responses) > 0
    /\ responses[Len(responses)].queued
    /\ responses[Len(responses)].position = 2
    /\ Len(queue) = 2
    /\ queue[2].downloadId = Len(responses)
    /\ getQueueStatus(queue, activeDownloads, Len(responses)).position = 2

\* C21: getQueueStatus(id) answers 'active' exactly for the ids of the active
\* set, 'queued' with position = index in the queue (counted from 1) exactly
\* for the ids of the queue and 'not_found' for every other id; its counts and
\* those of getStats are the sizes of the active set and of the queue.
C21_StatusMatchesQueueState ==
    /\ \A id \in Ids \cup {UnknownId} :
          LET st == getQueueStatus(queue, activeDownloads, id)
          IN /\ st.status = "active" <=> id \in ActiveIds
             /\ st.status = "queued" <=> id \in QueueIds
             /\ st.status = "not_found" <=> id \notin ActiveIds \cup QueueIds
             /\ st.status = "queued" =>
                   /\ st.position \in 1..Len(queue)
                   /\ queue[st.position].downloadId = id
                   /\ \A j \in 1..(st.position - 1) : queue[j].downloadId # id
             /\ st.activeDownloads = Cardinality(ActiveIds)
             /\ st.totalQueued = Len(queue)
    /\ getStats(queue, activeDownloads).activeDownloads = Cardinality(ActiveIds)
    /\ getStats(queue, activeDownloads).queuedDownloads = Len(queue)

\* one job runs, two wait (the second is reported at position 2) and an id
\* that was never issued is reported not_found
C21_Witness ==
    /\ getQueueStatus(queue, activeDownloads, UnknownId).status = "not_found"
    /\ \E a \in Ids : getQueueStatus(queue, activeDownloads, a).status = "active"
    /\ \E b \in Ids :
          /\ getQueueStatus(queue, activeDownloads, b).status = "queued"
          /\ getQueueStatus(queue, activeDownloads, b).position = 2
    /\ getStats(queue, activeDownloads).queuedDownloads = 2

IsRoundTrip == call.op = "downloadThenFetch"

\* C22: for an accepted download whose file is fetched, the file name of the
\* Content-Disposition and X-Suggested-Filename headers is the sanitized file
\* name the submission answered with, and the content type is the one of
\* that name.
C22_FilenameRoundTrip ==
    (IsRoundTrip /\ call.accepted) =>
        /\ call.res.status = 200
        /\ call.res.filename = call.filename
        /\ call.res.contentType = contentType(call.filename)

\* what a call of getVideoInfo(url) made in this state returns
Returned(url) == getVideoInfo(cache, pendingRequests, lookupProc, url, now)

\* C23: at most one lookup subprocess runs for a url; the promise of a
\* running lookup is the pending entry of its url and every pending entry is
\* the promise of a running lookup; a call for a url that has a pending entry
\* returns that promise and spawns nothing; when a lookup settles (success,
\* failure, spawn error) the pending entry of its url is gone.
C23_LookupsDeduplicated ==
    /\ [](\A p, q \in DOMAIN lookupProc :
            (/\ lookupProc[p].state = "running"
             /\ lookupProc[q].state = "running"
             /\ lookupProc[p].url = lookupProc[q].url) => p = q)
    /\ [](\A p \in DOMAIN lookupProc :
            lookupProc[p].state = "running" =>
                /\ lookupProc[p].url \in DOMAIN pendingRequests
                /\ pendingRequests[lookupProc[p].url] = p)
    /\ [](\A url \in DOMAIN pendingRequests :
            /\ pendingRequests[url] \in DOMAIN lookupProc
            /\ lookupProc[pendingRequests[url]] = [url |-> url, state |-> "running"]
            /\ Returned(url) = [kind |-> "pending", promise |-> pendingRequests[url]])
    /\ [][\A url \in DOMAIN pendingRequests :
            GetVideoInfo(url) =>
                /\ lookupProc' = lookupProc
                /\ pendingRequests' = pendingRequests]_vars
    /\ [][\A p \in DOMAIN lookupProc :
            (/\ lookupProc[p].state = "running"
             /\ (p \notin DOMAIN lookupProc' \/ lookupProc'[p].state # "running")) =>
                lookupProc[p].url \notin DOMAIN pendingRequests']_vars

\* a url whose first lookup could not be spawned is looked up again, its
\* cached result being stale, and a further call would join that lookup
C23_Witness ==
    \E url \in DOMAIN pendingRequests :
        /\ Returned(url).kind = "pending"
        /\ cacheIndex(cache, url) # 0
        /\ \E p \in DOMAIN lookupProc :
              lookupProc[p].state = "errored" /\ lookupProc[p].url = url

\* C24: the cache never holds more than 50 entries, and an entry that an
\* insertion evicts is the least recently used one: the one whose last read
\* or write lies furthest back.
C24_CacheBoundedLruEviction ==
    /\ [](Len(cache) <= MaxCacheSize)
    /\ [][\A u \in CachedUrls(cache) \ CachedUrls(cache') : u = Head(recency)]_vars

\* the cache never holds more than 50 entries
C24_CacheBounded == Len(cache) <= 50

\* the cache is full and an entry has been evicted from it
C24_Evicted == Len(cache) = MaxCacheSize /\ cache[1].url > 1

\* C25: a fetch of a job's id serves a file only when the job has completed;
\* while the job waits in the queue, while its subprocess runs and during the
\* flush delay after exit code 0 the fetch is answered 404.
C25_FetchOnlyAfterCompletion ==
    [][\A id \in 1..Len(responses) :
          FileFetch(id) =>
              /\ call'.res.status = 200 =>
                    /\ proc[id] = "exited"
                    /\ completeCount[id] = 1
              /\ (id \in QueueIds \/ proc[id] \in {"spawned", "running", "flushing"}) =>
                    call'.res.status = 404]_vars

\* the ids of the jobs whose files FetchNames lists, and the job a file is from
OtherJobId == <<"7">>
ProducedBy(f) == IF isPrefix(JobId, f) THEN JobId ELSE OtherJobId

\* C26: a file request with a well-formed id is served only a file of the job
\* that has exactly this id; an id that is no job's id (a proper prefix of
\* one, for instance) is refused and served no file.
C26_FetchServesOnlyOwnJob ==
    IsFetch =>
        /\ call.res.status = 200 => ProducedBy(call.res.served) = call.downloadId
        /\ (/\ validateDownloadId(call.downloadId)
            /\ call.downloadId \notin {JobId, OtherJobId}) =>
              (call.res.status # 200 /\ call.res.served = <<>>)

\* the errors of the onComplete calls made for job id by the handler that just ran
CallsFor(id) ==
    {i \in 1..Len(onCompleteCalls) : onCompleteCalls[i][1] = id}

\* C27: the completion callback of an accepted job is called exactly once
\* over the job's life: never while the job waits or runs, once when it has
\* left the queue and the active set; it is called by the eviction or the
\* cancellation of a job that never started, or by the end of the job's
\* subprocess, never by both; for a rejected submission it is never called.
C27_CompletionExactlyOnce ==
    /\ [](\A id \in Ids : completeCount[id] <= 1)
    /\ [](\A id \in 1..Len(responses) :
            IF responses[id].queued
            THEN completeCount[id] = (IF id \in QueueIds \cup ActiveIds THEN 0 ELSE 1)
            ELSE completeCount[id] = 0)
    /\ [](\A id \in Ids : Cardinality(CallsFor(id)) <= 1)
    /\ [][\A id \in Ids :
            completeCount'[id] # completeCount[id] =>
                /\ completeCount'[id] = completeCount[id] + 1
                /\ \E i \in 1..Len(onCompleteCalls') :
                      /\ onCompleteCalls'[i][1] = id
                      /\ IF onCompleteCalls'[i][2] \in {TimedOutMsg, CancelledMsg}
                         THEN /\ id \in QueueIds
                              /\ proc[id] = "none"
                              /\ proc'[id] = "none"
                         ELSE /\ onCompleteCalls'[i][2] \in {NoError, ExitCodeMsg, SpawnMsg}
                              /\ id \in ActiveIds
                              /\ proc[id] \in {"spawned", "running", "flushing"}
                              /\ proc'[id] = "exited"]_vars
    /\ [][\A id \in Ids :
            (completeCount[id] = 1 /\ proc[id] = "none") => proc'[id] = "none"]_vars

\* three jobs have ended, each with one callback: the first by the success of
\* its subprocess just now, the other two without ever having started
C27_Witness ==
    /\ completeCount = <<1, 1, 1>>
    /\ onCompleteCalls = << <<1, NoError>> >>
    /\ proc[1] = "exited"
    /\ proc[2] = "none"
    /\ proc[3] = "none"
    /\ \A id \in 1..3 : responses[id].queued

\* the subprocess of job id exits or fails to start
ProcExits(id) == ProcCloseOk(id, "filename") \/ ProcCloseFail(id) \/ ProcSpawnError(id)
\* every started subprocess eventually exits
EverySubprocessExits == \A id \in Ids : WF_vars(ProcExits(id))

\* C28: with the timers firing, a job that waits in the queue eventually
\* leaves it (promoted or evicted), whether or not any subprocess ever exits;
\* if moreover every started subprocess eventually exits, every accepted job
\* eventually has its completion callback called.
C28_QueuedJobsLeaveAndJobsEnd ==
    /\ \A id \in Ids : (id \in QueueIds) ~> (id \notin QueueIds)
    /\ EverySubprocessExits =>
          \A id \in Ids :
              (id \in 1..Len(responses) /\ responses[id].queued) ~> (completeCount[id] = 1)

\* a waiting job was evicted by the sweep while the job ahead of it still runs
C28_Witness ==
    \E id \in Ids :
        /\ onCompleteCalls = << <<id, TimedOutMsg>> >>
        /\ id \notin QueueIds
        /\ ActiveIds # {}
        /\ \A a \in ActiveIds : proc[a] \in {"spawned", "running"}

\* C29: after every operation of the queue, a download waits in the queue only
\* while the active set holds exactly maxConcurrent downloads.
C29_SlotsFilledEagerly == queue # <<>> => Cardinality(ActiveIds) = maxConcurrent

\* a completion has just freed a slot and the queue, still not empty, refilled it
C29_Witness ==
    /\ queue # <<>>
    /\ Cardinality(ActiveIds) = maxConcurrent
    /\ \E id \in Ids : completeCount[id] = 1 /\ proc[id] \in {"exited", "failed"}
    /\ \E id \in ActiveIds : activeDownloads[id].queuePosition > 0

\* the 300 ms interval callback of stream s has just written an event
Sends(s) == Len(streams'[s].sent) = Len(streams[s].sent) + 1

\* C30: a download in the active set has status downloading and a recorded
\* startedAt, its Progress Store entry is never in state Queued, and no stream
\* is sent a Queued event for a download that is in the active set.
C30_ActiveNeverShownQueued ==
    /\ [](\A id \in ActiveIds :
            /\ activeDownloads[id].status = "downloading"
            /\ activeDownloads[id].startedAt >= 0
            /\ id \in DOMAIN downloadProgress => downloadProgress[id].status # "Queued")
    /\ [][\A s \in StreamIds :
            (/\ Sends(s)
             /\ streams[s].downloadId \in ActiveIds
             /\ streams[s].downloadId \in DOMAIN downloadProgress)
            => streams'[s].sent[Len(streams'[s].sent)].status # "Queued"]_vars

\* the yt-dlp subprocesses that fetch media and have not exited: those of the
\* queue's active downloads and those of streamDownload
RunningDownloads ==
    Cardinality({id \in Ids : proc[id] \in {"spawned", "running"}}) + streamProcs

\* C31: at most maxConcurrent media-fetch subprocesses run at the same time,
\* whether they were started for queued downloads or for direct streaming.
C31_SubprocessesBounded == RunningDownloads <= maxConcurrent

\* the last line the subprocess of job id printed, while it still runs
LastLine(id, line) ==
    /\ call.op = "data"
    /\ call.downloadId = id
    /\ call.line = line
    /\ proc[id] = "running"

\* C32: after a phase marker line the job's entry shows Merging or Converting
\* with a percentage of at most 99 for as long as the subprocess runs, and
\* after a percentage line below 100 it shows Downloading.
C32_PhaseMarkersSetState ==
    \A id \in Ids : \A line \in Lines :
        LastLine(id, line) =>
            /\ line \in PhaseMarkers =>
                  /\ downloadProgress[id].status \in {"Merging", "Converting"}
                  /\ downloadProgress[id].progress <= 99
            /\ (progressMatch(line) /\ line.pct < 100) =>
                  downloadProgress[id].status = "Downloading"

\* C35: the progress stored for a job is within [0, 100].
C35_ProgressWithinRange ==
    \A id \in DOMAIN downloadProgress :
        /\ downloadProgress[id].progress >= 0
        /\ downloadProgress[id].progress <= 100

\* the ids of the submissions made so far
IssuedIds == 1..Len(responses)

\* C33: no job is in the queue and in the active set at once, no id occurs
\* twice in the queue, an active job never goes back to the queue, and a job
\* that is in neither place after its submission stays in neither.
C33_QueueAndActiveDisjointNoReentry ==
    /\ [](/\ QueueIds \cap ActiveIds = {}
          /\ \A i, j \in 1..Len(queue) :
                queue[i].downloadId = queue[j].downloadId => i = j)
    /\ [][\A id \in IssuedIds :
            /\ id \in ActiveIds => id \notin QueueIds'
            /\ id \notin QueueIds \cup ActiveIds => id \notin QueueIds' \cup ActiveIds']_vars

\* a job has left the active set while another is active and a third waits
C33_Witness ==
    \E id \in IssuedIds :
        /\ proc[id] = "exited"
        /\ id \notin QueueIds \cup ActiveIds
        /\ ActiveIds # {}
        /\ queue # <<>>

\* every accepted job has had its completion callback called and no purge
\* timer is pending
Quiescent ==
    /\ \A id \in IssuedIds : responses[id].queued => completeCount[id] >= 1
    /\ \A id \in Ids : purgeTimers[id] = 0

\* C34: once every accepted job is terminal and every purge timer has fired,
\* the Progress Store, the queue and the active set are empty; and an entry
\* deleted after the job's completion is never written again.
C34_NoLeakedState ==
    /\ [](Quiescent =>
            /\ downloadProgress = EmptyMap
            /\ queue = <<>>
            /\ activeDownloads = EmptyMap)
    /\ [][\A id \in IssuedIds :
            (completeCount[id] >= 1 /\ id \notin DOMAIN downloadProgress)
                => id \notin DOMAIN downloadProgress']_vars

\* every job of the run has ended, one after its subprocess exited and one
\* without ever being started, and all their entries are purged
C34_Witness ==
    /\ Quiescent
    /\ Len(responses) = MaxJobs
    /\ \E id \in IssuedIds : proc[id] = "exited" /\ onCompleteCalls = <<>>
    /\ \E id \in IssuedIds : responses[id].queued /\ proc[id] = "none"
    /\ downloadProgress = EmptyMap

\* C36: an accepted submission is answered 'Download starting' only if its job
\* is in the active set when the response is produced, and a job that is then
\* waiting in the queue is answered 'Queued at position N'.
C36_StartingMessageOnlyForActive ==
    [][Submits /\ responses'[Len(responses')].queued =>
          LET id == Len(responses')
              msg == message(responses'[id])
          IN /\ msg = <<"Download starting">> => id \in DOMAIN activeDownloads'
             /\ id \in {queue'[i].downloadId : i \in 1..Len(queue')} =>
                   msg[1] = "Queued at position"]_vars

\* the submission of id was accepted
Accepted(id) == id \in IssuedIds /\ responses[id].queued

\* C37: isDownloadComplete is false for a job that waits in the queue or runs
\* in the active set, and true only for a job whose completion callback has
\* been called or an id that was never accepted.
C37_CompleteOnlyWhenTerminal ==
    \A id \in Ids \cup {UnknownId} :
        /\ id \in QueueIds \cup ActiveIds => ~isDownloadComplete(activeDownloads, id)
        /\ isDownloadComplete(activeDownloads, id) =>
              ~Accepted(id) \/ completeCount[id] >= 1
====
